---- MODULE Spec2Model ----
(***************************************************************************)
(* Adjoint-method gradient engine of node/core.py: reverse_mode_derivative *)
(* (aug_dynamics, backward), get_node_function, get_dynamical_node_function*)
(* and StopCondition.                                                       *)
(*                                                                          *)
(* Tensors are finite sequences of integers; a scalar trainable variable is *)
(* a one-element tensor.  The phase vector field handed in by the caller is *)
(* drawn from the family                                                    *)
(*     network(t, z) = (gain + SUM_i Coef(i) * variables[i]) * z            *)
(* whose vector-Jacobian products are computed exactly.  The ODE solvers    *)
(* (node.fix_grid and the dynamical solver) are not part of the sources;    *)
(* they are modelled as explicit Euler integrators on an integer grid.      *)
(***************************************************************************)
EXTENDS Integers, Sequences, FiniteSets, TLC

VARIABLES variables, gain, step, stop_condition, lastCall, inv

vars == <<variables, gain, step, stop_condition, lastCall, inv>>

----------------------------------------------------------------------------
(* Bounds of the model *)

MaxVars == 2
MaxSteps == 3
MaxHorizon == 2

Procs == {1, 2}
ThetaVals == {-1, 1}
Gains == {-1, 0, 1}
StartTimes == {-2, 0}
X0s == {<<0, 0>>, <<1, -1>>, <<2, 1>>}
GYs == {<<0, 0>>, <<1, 1>>, <<2, -1>>}
Horizons == -1..MaxHorizon
CallTimes == -2..2
ParStartTimes == {-2, 0}
ParHorizons == {2}
ParX0s == {<<0, 0>>, <<1, -1>>}
ParGYs == {<<2, -1>>}

----------------------------------------------------------------------------
(* Tensor arithmetic *)

Abs(n) == IF n < 0 THEN -n ELSE n

Sign(n) == IF n < 0 THEN -1 ELSE IF n > 0 THEN 1 ELSE 0

TAdd(a, b) == [j \in 1..Len(a) |-> a[j] + b[j]]

TScale(c, a) == [j \in 1..Len(a) |-> c * a[j]]

zeros_like(a) == [j \in 1..Len(a) |-> 0]

RECURSIVE Dot(_, _)
Dot(a, b) == IF Len(a) = 0 THEN 0 ELSE a[1] * b[1] + Dot(Tail(a), Tail(b))

RECURSIVE reduce_max_abs(_)
reduce_max_abs(a) ==
  IF Len(a) = 1 THEN Abs(a[1])
  ELSE LET m == reduce_max_abs(Tail(a))
       IN  IF Abs(a[1]) > m THEN Abs(a[1]) ELSE m

(* Elementwise operations on a list of tensors (an augmented phase point) *)
PAdd(p, q) == [c \in 1..Len(p) |-> TAdd(p[c], q[c])]

PScale(k, p) == [c \in 1..Len(p) |-> TScale(k, p[c])]

----------------------------------------------------------------------------
(* The caller's phase vector field and the autodiff primitive *)

Coef(i) == i - 1

RECURSIVE WeightUpTo(_, _)
WeightUpTo(th, n) ==
  IF n = 0 THEN 0 ELSE Coef(n) * th[n][1] + WeightUpTo(th, n - 1)

Weight(g, th) == g + WeightUpTo(th, Len(th))

network(g, th, time, state) == TScale(Weight(g, th), state)

(* g.gradient(output, [state] + variables, cotangent,                      *)
(*            unconnected_gradients='zero')                                *)
VJP(g, th, time, state, cotangent) ==
  <<TScale(Weight(g, th), cotangent)>>
    \o [i \in 1..Len(th) |-> <<Coef(i) * Dot(state, cotangent)>>]

negate(x) == TScale(-1, x)

aug_dynamics_ones(g, th, time, aug_phase_point) ==
  LET state == aug_phase_point[1]
      output == network(g, th, time, state)
      vjps == VJP(g, th, time, state, [j \in 1..Len(state) |-> 1])
  IN  <<output>> \o vjps

aug_dynamics(g, th, time, aug_phase_point) ==
  LET state == aug_phase_point[1]
      adjoint == aug_phase_point[2]
      neg_adjoint == negate(adjoint)
      output == network(g, th, time, state)
      vjps == VJP(g, th, time, state, neg_adjoint)
  IN  <<output>> \o vjps

----------------------------------------------------------------------------
(* StopCondition *)

StopCondition(pvf_max_time, pvf_relax_tol) ==
  [max_time |-> pvf_max_time, relax_tol |-> pvf_relax_tol, relax_time |-> 0]

(* __call__(t0, x0, t1, x1): the value returned, the object afterwards and *)
(* the branch taken.                                                       *)
StopCall_relaxFirst(sc, g, th, t0, x0, t1, x1) ==
  IF reduce_max_abs(network(g, th, t1, x1)) < sc.relax_tol
  THEN [ret |-> TRUE, sc |-> [sc EXCEPT !.relax_time = t1], branch |-> "relaxed"]
  ELSE IF t1 - t0 > sc.max_time
  THEN [ret |-> TRUE, sc |-> [sc EXCEPT !.relax_time = -1], branch |-> "timeout"]
  ELSE [ret |-> FALSE, sc |-> sc, branch |-> "none"]

StopCall_recordsStart(sc, g, th, t0, x0, t1, x1) ==
  IF t1 - t0 > sc.max_time
  THEN [ret |-> TRUE, sc |-> [sc EXCEPT !.relax_time = -1], branch |-> "timeout"]
  ELSE IF reduce_max_abs(network(g, th, t1, x1)) < sc.relax_tol
  THEN [ret |-> TRUE, sc |-> [sc EXCEPT !.relax_time = t0], branch |-> "relaxed"]
  ELSE [ret |-> FALSE, sc |-> sc, branch |-> "none"]

StopCall_resets(sc, g, th, t0, x0, t1, x1) ==
  IF t1 - t0 > sc.max_time
  THEN [ret |-> TRUE, sc |-> [sc EXCEPT !.relax_time = -1], branch |-> "timeout"]
  ELSE IF reduce_max_abs(network(g, th, t1, x1)) < sc.relax_tol
  THEN [ret |-> TRUE, sc |-> [sc EXCEPT !.relax_time = t1], branch |-> "relaxed"]
  ELSE [ret |-> FALSE, sc |-> [sc EXCEPT !.relax_time = 0], branch |-> "none"]

StopCall_stale(sc, g, th, t0, x0, t1, x1) ==
  IF sc.relax_time # 0
  THEN [ret |-> TRUE, sc |-> sc, branch |-> "stale"]
  ELSE IF t1 - t0 > sc.max_time
  THEN [ret |-> TRUE, sc |-> [sc EXCEPT !.relax_time = -1], branch |-> "timeout"]
  ELSE IF reduce_max_abs(network(g, th, t1, x1)) < sc.relax_tol
  THEN [ret |-> TRUE, sc |-> [sc EXCEPT !.relax_time = t1], branch |-> "relaxed"]
  ELSE [ret |-> FALSE, sc |-> sc, branch |-> "none"]

StopCall(sc, g, th, t0, x0, t1, x1) ==
  IF t1 - t0 > sc.max_time
  THEN [ret |-> TRUE, sc |-> [sc EXCEPT !.relax_time = -1], branch |-> "timeout"]
  ELSE IF reduce_max_abs(network(g, th, t1, x1)) < sc.relax_tol
  THEN [ret |-> TRUE, sc |-> [sc EXCEPT !.relax_time = t1], branch |-> "relaxed"]
  ELSE [ret |-> FALSE, sc |-> sc, branch |-> "none"]

NoCall == [called |-> FALSE]

CallRecord(sc, t0, t1, x1, r) ==
  [called |-> TRUE, t0 |-> t0, t1 |-> t1, x1 |-> x1, pre |-> sc,
   ret |-> r.ret, branch |-> r.branch]

----------------------------------------------------------------------------
(* The solvers' stepping primitive: one explicit Euler step of width dt *)

EulerStep(g, th, time, x, dt) == TAdd(x, TScale(dt, network(g, th, time, x)))

AugEulerStep(g, th, time, aug, dt) ==
  PAdd(aug, PScale(dt, aug_dynamics(g, th, time, aug)))

----------------------------------------------------------------------------
(* reverse_mode_derivative.backward *)

final_phase_point(th, final_state, final_loss_gradient) ==
  <<final_state, final_loss_gradient>> \o [i \in 1..Len(th) |-> zeros_like(th[i])]

(* forward(end_time, start_time, final_phase_point) *)
BackwardCall_notSwapped(start_time, end_time, point) ==
  [start |-> start_time, end |-> end_time, point |-> point]

BackwardCall(start_time, end_time, point) ==
  [start |-> end_time, end |-> start_time, point |-> point]

(* init_state, init_loss_gradient, *grad_loss_by_vars = ode_result *)
Unpack_reversed(phase_point) ==
  LET k == Len(phase_point) - 2
  IN  [init_state |-> phase_point[1],
       init_loss_gradient |-> phase_point[2],
       grad_loss_by_vars |-> [i \in 1..k |-> phase_point[2 + (k + 1 - i)]]]

Unpack(phase_point) ==
  [init_state |-> phase_point[1],
   init_loss_gradient |-> phase_point[2],
   grad_loss_by_vars |-> SubSeq(phase_point, 3, Len(phase_point))]

----------------------------------------------------------------------------
(* get_dynamical_node_function: t1 = ode_result.time, later handed to    *)
(* backward(t0, t1, y, grad_ys)                                            *)

EndTime_relaxTime(ode_result_time, sc) == sc.relax_time

EndTime(ode_result_time, sc) == ode_result_time

----------------------------------------------------------------------------
(* Invocations *)

NoTensor == <<>>

IdleRec ==
  [pc |-> "idle", kind |-> "none", t0 |-> 0, t1 |-> 0, x0 |-> NoTensor,
   t |-> 0, x |-> NoTensor, n |-> 0, y |-> NoTensor, gy |-> NoTensor,
   calls |-> <<>>, aug |-> <<>>, res |-> <<>>]

OffRec == [IdleRec EXCEPT !.pc = "off"]

Thetas(k) == [1..k -> {<<v>> : v \in ThetaVals}]

Init ==
  /\ variables \in UNION {Thetas(k) : k \in 0..MaxVars}
  /\ gain \in Gains
  /\ step \in {1, 2}
  /\ stop_condition \in {StopCondition(m, r) : m \in {1, 2}, r \in {1, 3}}
  /\ lastCall = NoCall
  /\ inv = [i \in Procs |-> IF i = 1 THEN IdleRec ELSE OffRec]

(* node_fn(t0, t1, x0) of get_node_function: forward(t0, t1, x) starts *)
node_fn(i, T0s, Ds, Xs) ==
  /\ inv[i].pc = "idle"
  /\ \E t0 \in T0s, d \in Ds, x0 \in Xs :
       inv' = [inv EXCEPT ![i] = [IdleRec EXCEPT !.pc = "fwd", !.kind = "static",
                  !.t0 = t0, !.t1 = t0 + d, !.x0 = x0, !.t = t0, !.x = x0]]
  /\ UNCHANGED <<variables, gain, step, stop_condition, lastCall>>

(* node_fn(t0, x0) of get_dynamical_node_function: forward(t0, x) starts *)
dynamical_node_fn(i, T0s, Xs) ==
  /\ inv[i].pc = "idle"
  /\ \E t0 \in T0s, x0 \in Xs :
       inv' = [inv EXCEPT ![i] = [IdleRec EXCEPT !.pc = "fwd", !.kind = "dynamical",
                  !.t0 = t0, !.x0 = x0, !.t = t0, !.x = x0]]
  /\ UNCHANGED <<variables, gain, step, stop_condition, lastCall>>

(* A caller holding backward = reverse_mode_derivative(solver, network,   *)
(* variables) and a final state of its own                                 *)
reverse_mode_derivative(i) ==
  /\ inv[i].pc = "idle"
  /\ \E t0 \in StartTimes, d \in Horizons, z \in X0s :
       inv' = [inv EXCEPT ![i] = [IdleRec EXCEPT !.pc = "fwd_done", !.kind = "direct",
                  !.t0 = t0, !.t1 = t0 + d, !.y = z]]
  /\ UNCHANGED <<variables, gain, step, stop_condition, lastCall>>

(* One step of the static solver's forward(t0, t1, x) *)
forward_step(i) ==
  /\ inv[i].pc = "fwd"
  /\ inv[i].kind = "static"
  /\ inv[i].t # inv[i].t1
  /\ LET dt == Sign(inv[i].t1 - inv[i].t)
     IN  inv' = [inv EXCEPT ![i].x = EulerStep(gain, variables, inv[i].t, inv[i].x, dt),
                            ![i].t = inv[i].t + dt]
  /\ UNCHANGED <<variables, gain, step, stop_condition, lastCall>>

(* The static solver reaches t1: y = ode_result.phase_point *)
forward_return(i) ==
  /\ inv[i].pc = "fwd"
  /\ inv[i].kind = "static"
  /\ inv[i].t = inv[i].t1
  /\ inv' = [inv EXCEPT ![i].pc = "fwd_done", ![i].y = inv[i].x,
                        ![i].x = NoTensor, ![i].t = 0]
  /\ UNCHANGED <<variables, gain, step, stop_condition, lastCall>>

(* One step of the dynamical solver's forward(t0, x): advance to the next *)
(* boundary and ask stop_condition(t_prev, x_prev, t_next, x_next)        *)
dynamical_forward_step(i) ==
  /\ inv[i].pc = "fwd"
  /\ inv[i].kind = "dynamical"
  /\ inv[i].n < MaxSteps
  /\ LET t_prev == inv[i].t
         x_prev == inv[i].x
         t_next == t_prev + step
         x_next == EulerStep(gain, variables, t_prev, x_prev, step)
         r == StopCall(stop_condition, gain, variables, t_prev, x_prev, t_next, x_next)
     IN  /\ stop_condition' = r.sc
         /\ lastCall' = CallRecord(stop_condition, t_prev, t_next, x_next, r)
         /\ inv' = IF r.ret
                   THEN [inv EXCEPT ![i].pc = "fwd_done",
                                    ![i].t1 = t_next,
                                    ![i].y = x_next,
                                    ![i].x = NoTensor, ![i].t = 0,
                                    ![i].n = inv[i].n + 1]
                   ELSE [inv EXCEPT ![i].t = t_next, ![i].x = x_next,
                                    ![i].n = inv[i].n + 1]
  /\ UNCHANGED <<variables, gain, step>>

(* grad_fn(grad_ys, variables): the autodiff engine passes the variables   *)
(* keyword only when the forward pass watched some.  With none,            *)
(* kwargs.get('variables', None) is None and building backward's final     *)
(* point (for var in variables) raises.  Otherwise                         *)
(* backward(t0, t1, y, grad_ys) builds the final augmented point and calls *)
(* the static solver's forward.                                            *)
grad_fn(i, Gs) ==
  /\ inv[i].pc = "fwd_done"
  /\ \E gy \in Gs :
       IF inv[i].kind # "direct" /\ Len(variables) = 0
       THEN inv' = [inv EXCEPT ![i].pc = "raised", ![i].gy = gy]
       ELSE LET t1 == IF inv[i].kind = "dynamical"
                          THEN EndTime(inv[i].t1, stop_condition)
                          ELSE inv[i].t1
                 point == final_phase_point(variables, inv[i].y, gy)
                 call == BackwardCall(inv[i].t0, t1, point)
            IN  inv' = [inv EXCEPT ![i].pc = "bwd", ![i].gy = gy,
                          ![i].calls = Append(inv[i].calls, call),
                          ![i].aug = point,
                          ![i].t = call.start]
  /\ UNCHANGED <<variables, gain, step, stop_condition, lastCall>>

CurCall(i) == inv[i].calls[Len(inv[i].calls)]

(* One step of the static solver over the augmented field; bt is kept in t *)
backward_step(i) ==
  /\ inv[i].pc = "bwd"
  /\ inv[i].t # CurCall(i).end
  /\ LET dt == Sign(CurCall(i).end - inv[i].t)
     IN  inv' = [inv EXCEPT ![i].aug = AugEulerStep(gain, variables, inv[i].t, inv[i].aug, dt),
                            ![i].t = inv[i].t + dt]
  /\ UNCHANGED <<variables, gain, step, stop_condition, lastCall>>

(* The augmented solve reaches its end time: backward unpacks and returns *)
backward_return(i) ==
  /\ inv[i].pc = "bwd"
  /\ inv[i].t = CurCall(i).end
  /\ inv' = [inv EXCEPT ![i].pc = "done", ![i].res = Unpack(inv[i].aug)]
  /\ UNCHANGED <<variables, gain, step, stop_condition, lastCall>>

(* The invocation is over; the object is free for the next one *)
finish(i) ==
  /\ inv[i].pc \in {"done", "raised"}
  /\ inv' = [inv EXCEPT ![i] = IdleRec]
  /\ lastCall' = NoCall
  /\ UNCHANGED <<variables, gain, step, stop_condition>>

Next ==
  \E i \in Procs :
    \/ node_fn(i, StartTimes, Horizons, X0s)
    \/ dynamical_node_fn(i, StartTimes, X0s)
    \/ reverse_mode_derivative(i)
    \/ forward_step(i)
    \/ forward_return(i)
    \/ dynamical_forward_step(i)
    \/ grad_fn(i, GYs)
    \/ backward_step(i)
    \/ backward_return(i)
    \/ finish(i)

Spec == Init /\ [][Next]_vars

----------------------------------------------------------------------------
(* Two invocations of the node functions built from the same solver, field *)
(* and StopCondition, their steps interleaved                               *)

InitPar ==
  /\ variables \in Thetas(MaxVars)
  /\ gain \in Gains
  /\ step \in {1, 2}
  /\ stop_condition = StopCondition(1, 1)
  /\ lastCall = NoCall
  /\ inv = [i \in Procs |-> IdleRec]

NextPar ==
  \E i \in Procs :
    \/ node_fn(i, ParStartTimes, ParHorizons, ParX0s)
    \/ dynamical_node_fn(i, ParStartTimes, ParX0s)
    \/ forward_step(i)
    \/ forward_return(i)
    \/ dynamical_forward_step(i)
    \/ grad_fn(i, ParGYs)
    \/ backward_step(i)
    \/ backward_return(i)

SpecPar == InitPar /\ [][NextPar]_vars

----------------------------------------------------------------------------
(* A StopCondition called directly with arbitrary arguments *)

InitStop ==
  /\ variables \in UNION {Thetas(k) : k \in 0..MaxVars}
  /\ gain \in Gains
  /\ step = 1
  /\ stop_condition \in {StopCondition(m, r) : m \in {1, 2}, r \in {1, 3}}
  /\ lastCall = NoCall
  /\ inv = [i \in Procs |-> OffRec]

stop_condition_call ==
  /\ \E t0 \in CallTimes, t1 \in CallTimes, x0 \in {<<0, 0>>}, x1 \in X0s :
       LET r == StopCall(stop_condition, gain, variables, t0, x0, t1, x1)
       IN  /\ stop_condition' = r.sc
           /\ lastCall' = CallRecord(stop_condition, t0, t1, x1, r)
  /\ UNCHANGED <<variables, gain, step, inv>>

NextStop == stop_condition_call

SpecStop == InitStop /\ [][NextStop]_vars

----------------------------------------------------------------------------
(* What an invocation computes when it runs alone, on a StopCondition of   *)
(* its own, as a function of its inputs                                    *)

RECURSIVE SoloForward(_, _, _, _, _)
SoloForward(g, th, t, t1, x) ==
  IF t = t1 THEN x
  ELSE LET dt == Sign(t1 - t)
       IN  SoloForward(g, th, t + dt, t1, EulerStep(g, th, t, x, dt))

RECURSIVE SoloDynamical(_, _, _, _, _, _, _)
SoloDynamical(sc, g, th, h, t, x, n) ==
  LET t_next == t + h
      x_next == EulerStep(g, th, t, x, h)
      r == StopCall(sc, g, th, t, x, t_next, x_next)
  IN  IF r.ret THEN [halted |-> TRUE, time |-> t_next, y |-> x_next, sc |-> r.sc]
      ELSE IF n + 1 >= MaxSteps
      THEN [halted |-> FALSE, time |-> t_next, y |-> NoTensor, sc |-> r.sc]
      ELSE SoloDynamical(r.sc, g, th, h, t_next, x_next, n + 1)

RECURSIVE SoloAugmented(_, _, _, _, _)
SoloAugmented(g, th, t, t_end, aug) ==
  IF t = t_end THEN aug
  ELSE LET dt == Sign(t_end - t)
       IN  SoloAugmented(g, th, t + dt, t_end, AugEulerStep(g, th, t, aug, dt))

SoloBackward(g, th, t0, t1, y, gy) ==
  LET call == BackwardCall(t0, t1, final_phase_point(th, y, gy))
  IN  Unpack(SoloAugmented(g, th, call.start, call.end, call.point))

SoloY(i) ==
  LET r == inv[i]
      fresh == StopCondition(stop_condition.max_time, stop_condition.relax_tol)
  IN  IF r.kind = "static"
      THEN SoloForward(gain, variables, r.t0, r.t1, r.x0)
      ELSE SoloDynamical(fresh, gain, variables, step, r.t0, r.x0, 0).y

SoloRes(i) ==
  LET r == inv[i]
      fresh == StopCondition(stop_condition.max_time, stop_condition.relax_tol)
  IN  IF r.kind = "static"
      THEN SoloBackward(gain, variables, r.t0, r.t1, SoloY(i), r.gy)
      ELSE LET d == SoloDynamical(fresh, gain, variables, step, r.t0, r.x0, 0)
           IN  SoloBackward(gain, variables, r.t0, EndTime(d.time, d.sc), d.y, r.gy)

----------------------------------------------------------------------------
(* Properties *)

Running(i) == inv[i].pc \in {"bwd", "done"}

IsZero(a) == a = zeros_like(a)

FieldMax(t1, x1) == reduce_max_abs(network(gain, variables, t1, x1))

TimedOut(c) == c.t1 - c.t0 > c.pre.max_time

(* C1: backward makes exactly one call of the static solver's forward over *)
(* the augmented field, with start argument t1 and end argument t0, on the *)
(* point [z_final, g_final, 0_1, ..., 0_k]; every augmented point and every*)
(* value of aug_dynamics on it has length 2 + k in the order [state,       *)
(* adjoint, grad_1..grad_k]; backward returns components 1, 2 and 3..2+k in*)
(* that order, so that entry i of the gradient list belongs to parameter i *)
(* (it is Coef(i) times the common accumulated product, zero for an        *)
(* unconnected parameter).                                                 *)
C1_AugmentedLayout ==
  \A i \in Procs :
    LET r == inv[i]
        k == Len(variables)
    IN  /\ Running(i) =>
             /\ Len(r.calls) = 1
             /\ r.calls[1].start = r.t1
             /\ r.calls[1].end = r.t0
             /\ r.calls[1].point = <<r.y, r.gy>> \o [j \in 1..k |-> <<0>>]
             /\ Len(r.aug) = 2 + k
             /\ LET d == aug_dynamics(gain, variables, r.t, r.aug)
                IN  /\ Len(d) = 2 + k
                    /\ d[1] = network(gain, variables, r.t, r.aug[1])
                    /\ Len(d[2]) = Len(r.aug[2])
                    /\ \A j \in 1..k : Len(d[2 + j]) = Len(variables[j])
             /\ \A a \in 1..k, b \in 1..k :
                  Coef(a) * r.aug[2 + b][1] = Coef(b) * r.aug[2 + a][1]
        /\ r.pc = "done" =>
             /\ r.res.init_state = r.aug[1]
             /\ r.res.init_loss_gradient = r.aug[2]
             /\ Len(r.res.grad_loss_by_vars) = k
             /\ \A j \in 1..k : r.res.grad_loss_by_vars[j] = r.aug[2 + j]
             /\ \A a \in 1..k, b \in 1..k :
                  Coef(a) * r.res.grad_loss_by_vars[b][1]
                    = Coef(b) * r.res.grad_loss_by_vars[a][1]

C1_Witness ==
  \E i \in Procs :
    /\ inv[i].pc = "done"
    /\ Len(variables) = 2
    /\ inv[i].t1 > inv[i].t0
    /\ inv[i].res.grad_loss_by_vars[2] # <<0>>
    /\ inv[i].res.grad_loss_by_vars[1] = <<0>>

(* C3: with a zero final loss gradient the adjoint and every gradient      *)
(* accumulator are zero at every step of the backward solve, and backward  *)
(* returns a zero gradient for the state and for every parameter.          *)
C3_ZeroGradient ==
  \A i \in Procs :
    LET r == inv[i]
    IN  (Running(i) /\ IsZero(r.gy)) =>
          /\ IsZero(r.aug[2])
          /\ \A j \in 1..Len(variables) : IsZero(r.aug[2 + j])
          /\ r.pc = "done" =>
               /\ IsZero(r.res.init_loss_gradient)
               /\ \A j \in 1..Len(variables) : IsZero(r.res.grad_loss_by_vars[j])

C3_Witness ==
  \E i \in Procs :
    /\ inv[i].pc = "done"
    /\ IsZero(inv[i].gy)
    /\ Len(variables) = 2
    /\ Weight(gain, variables) # 0
    /\ ~IsZero(inv[i].y)
    /\ inv[i].t1 - inv[i].t0 >= 2
    /\ inv[i].res.init_state # inv[i].y

(* C4: a call with t1 - t0 > max_time returns true and leaves relax_time   *)
(* at -1, also when the field at (t1, x1) is below relax_tol.              *)
C4_TimeoutFirst ==
  (lastCall.called /\ TimedOut(lastCall)) =>
    /\ lastCall.ret = TRUE
    /\ stop_condition.relax_time = -1

C4_Witness ==
  /\ lastCall.called
  /\ TimedOut(lastCall)
  /\ FieldMax(lastCall.t1, lastCall.x1) < lastCall.pre.relax_tol
  /\ lastCall.t1 # -1
  /\ lastCall.pre.relax_time # -1

(* C5: a call with t1 - t0 <= max_time and max|field(t1, x1)| < relax_tol  *)
(* returns true and leaves relax_time equal to t1.                         *)
C5_Relaxed ==
  (/\ lastCall.called
   /\ ~TimedOut(lastCall)
   /\ FieldMax(lastCall.t1, lastCall.x1) < lastCall.pre.relax_tol) =>
    /\ lastCall.ret = TRUE
    /\ stop_condition.relax_time = lastCall.t1

C5_Witness ==
  /\ lastCall.called
  /\ ~TimedOut(lastCall)
  /\ FieldMax(lastCall.t1, lastCall.x1) < lastCall.pre.relax_tol
  /\ lastCall.t1 # lastCall.t0
  /\ lastCall.t1 # lastCall.pre.relax_time
  /\ ~IsZero(lastCall.x1)

(* C10: a call with t1 - t0 <= max_time and max|field(t1, x1)| >= relax_tol*)
(* returns false and leaves relax_time at its value before the call, which *)
(* is 0 as long as no call has been made; no call changes max_time or      *)
(* relax_tol.                                                              *)
C10_NonFiringFrame ==
  /\ ~lastCall.called => stop_condition.relax_time = 0
  /\ lastCall.called =>
       /\ stop_condition.max_time = lastCall.pre.max_time
       /\ stop_condition.relax_tol = lastCall.pre.relax_tol
       /\ (/\ ~TimedOut(lastCall)
           /\ FieldMax(lastCall.t1, lastCall.x1) >= lastCall.pre.relax_tol) =>
            /\ lastCall.ret = FALSE
            /\ stop_condition.relax_time = lastCall.pre.relax_time

C10_Witness ==
  /\ lastCall.called
  /\ ~TimedOut(lastCall)
  /\ FieldMax(lastCall.t1, lastCall.x1) >= lastCall.pre.relax_tol
  /\ lastCall.pre.relax_time = 2

(* C6: once a dynamical integration has completed, relax_time is a        *)
(* non-negative stopping time if it ended by relaxation, and it is -1 if   *)
(* and only if it ended by the time-out.                                   *)
C6_RelaxTimeMeaning ==
  \A i \in Procs :
    (inv[i].kind = "dynamical" /\ inv[i].pc = "fwd_done") =>
      /\ lastCall.branch = "relaxed" => stop_condition.relax_time >= 0
      /\ stop_condition.relax_time = -1 <=> lastCall.branch = "timeout"

(* C7: a dynamical integration started at t0 has halted by the first step  *)
(* boundary whose time exceeds t0 + max_time: none is still integrating    *)
(* past such a boundary.                                                   *)
C7_MaxTimeBoundsIntegration ==
  \A i \in Procs :
    (inv[i].kind = "dynamical" /\ inv[i].pc = "fwd") =>
      inv[i].t - inv[i].t0 <= stop_condition.max_time

(* C8 as stated: the end time the backward rule of the dynamical node      *)
(* function passes to backward is the recorded relax_time of that          *)
(* integration, whatever its outcome.                                      *)
C8_EndTimeIsRelaxTime ==
  \A i \in Procs :
    (inv[i].kind = "dynamical" /\ Running(i)) =>
      inv[i].calls[1].start = stop_condition.relax_time

(* C8 as amended: the end time the backward rule of the dynamical node     *)
(* function passes to backward is the time the dynamical solver returned,  *)
(* the step boundary at which the stop condition returned true, whatever   *)
(* the outcome; it is the recorded relax_time when the integration ended   *)
(* by relaxation, and after a time-out the recorded relax_time is -1.      *)
C8_EndTimeIsSolverTime ==
  \A i \in Procs :
    (inv[i].kind = "dynamical" /\ Running(i)) =>
      /\ lastCall.called /\ lastCall.ret = TRUE
      /\ inv[i].calls[1].start = lastCall.t1
      /\ inv[i].calls[1].end = inv[i].t0
      /\ lastCall.branch = "relaxed" =>
           inv[i].calls[1].start = stop_condition.relax_time
      /\ lastCall.branch = "timeout" => stop_condition.relax_time = -1

C8_Witness ==
  \E i \in Procs :
    /\ inv[i].kind = "dynamical"
    /\ inv[i].pc = "done"
    /\ lastCall.branch = "timeout"
    /\ inv[i].calls[1].start # stop_condition.relax_time
    /\ inv[i].res.init_state # inv[i].y

(* C9: under any interleaving of the steps of two invocations of the node  *)
(* functions (static, or dynamical on the one shared StopCondition), each  *)
(* invocation's x1 and the gradients of its backward rule are those it     *)
(* produces when it runs alone.                                            *)
C9_Reentrant ==
  \A i \in Procs :
    /\ inv[i].pc \in {"fwd_done", "bwd", "done"} => inv[i].y = SoloY(i)
    /\ inv[i].pc = "done" =>
         /\ inv[i].res.init_loss_gradient = SoloRes(i).init_loss_gradient
         /\ inv[i].res.grad_loss_by_vars = SoloRes(i).grad_loss_by_vars

C9_Witness ==
  /\ \A i \in Procs : inv[i].pc = "done" /\ inv[i].kind = "dynamical"
  /\ inv[1].t0 # inv[2].t0
  /\ inv[1].calls[1].start # stop_condition.relax_time
  /\ inv[1].res.grad_loss_by_vars[2] # <<0>>
  /\ inv[1].res.init_loss_gradient # inv[1].gy

====
